---------------------------- MODULE Spec2Model ----------------------------
(***************************************************************************)
(* State-machine model of the easy-crop image cropping tool (App component *)
(* plus the CropPreview and ImageUploader components).                     *)
(*                                                                         *)
(* Numbers.  The program computes with JavaScript numbers.  Every quantity *)
(* of the geometry is a quotient of integers, so the model computes with   *)
(* exact rationals: a number is a pair <<n, d>> with d > 0 and gcd 1.      *)
(* Math.floor, Math.round, Math.abs, Math.min and Math.max are computed    *)
(* from their definitions.  IEEE rounding error (a relative 2^-53) is not  *)
(* modelled.                                                               *)
(*                                                                         *)
(* Rendering.  React re-renders after every handler.  An action is one     *)
(* handler together with the render and the effect cleanups it triggers,   *)
(* so every handler reads the state its predecessor left.                  *)
(***************************************************************************)
EXTENDS Integers, Sequences, FiniteSets, TLC

(***************************************************************************)
(* Exact rational arithmetic                                               *)
(***************************************************************************)
Abs(n) == IF n < 0 THEN -n ELSE n

RECURSIVE GCD(_, _)
GCD(a, b) == IF b = 0 THEN a ELSE GCD(b, a % b)

LCM(a, b) == (a \div GCD(a, b)) * b

\* The reduced fraction n/d, d # 0.
Rat(n, d) ==
    LET g == GCD(Abs(n), Abs(d))
        s == IF d < 0 THEN -1 ELSE 1
    IN  <<s * (n \div g), s * (d \div g)>>

Num(q) == q[1]
Den(q) == q[2]
RInt(n) == <<n, 1>>

RAdd(p, q) ==
    LET l == LCM(Den(p), Den(q))
    IN  Rat(Num(p) * (l \div Den(p)) + Num(q) * (l \div Den(q)), l)

RNeg(p) == <<-Num(p), Den(p)>>
RSub(p, q) == RAdd(p, RNeg(q))

\* Cross-reduced before multiplying, so that the products stay small.
RMul(p, q) ==
    LET g1 == GCD(Abs(Num(p)), Den(q))
        g2 == GCD(Abs(Num(q)), Den(p))
    IN  IF Num(p) = 0 \/ Num(q) = 0 THEN <<0, 1>>
        ELSE <<(Num(p) \div g1) * (Num(q) \div g2),
               (Den(p) \div g2) * (Den(q) \div g1)>>

\* p / q, q # 0.
RDiv(p, q) ==
    RMul(p, IF Num(q) < 0 THEN <<-Den(q), -Num(q)>> ELSE <<Den(q), Num(q)>>)

RLe(p, q) ==
    LET l == LCM(Den(p), Den(q))
    IN  Num(p) * (l \div Den(p)) <= Num(q) * (l \div Den(q))

RLt(p, q) == RLe(p, q) /\ p # q
RMin(p, q) == IF RLe(p, q) THEN p ELSE q
RMax(p, q) == IF RLe(p, q) THEN q ELSE p
RAbs(p) == <<Abs(Num(p)), Den(p)>>

\* Math.floor: \div rounds towards minus infinity.
Floor(p) == Num(p) \div Den(p)

\* Math.round: the nearest integer, a tie going up: floor(p + 1/2).
Round(p) == Floor(RAdd(p, <<1, 2>>))

Zero == RInt(0)
One == RInt(1)


(***************************************************************************)
(* Configuration (constants.ts, App.tsx, CropPreview.tsx)                  *)
(***************************************************************************)
PREVIEW_WIDTH == 450

CROP_PRESETS ==
    << [id |-> "mobile", baseWidth |-> 1055, baseHeight |-> 967, suffix |-> "_S"],
       [id |-> "desktop", baseWidth |-> 1024, baseHeight |-> 440, suffix |-> "_L"] >>

PresetIds == {CROP_PRESETS[i].id : i \in DOMAIN CROP_PRESETS}

\* SCALE_PRESETS = [0.5, 1, 1.5, 2, 2.5]
SCALE_PRESETS == {<<1, 2>>, <<1, 1>>, <<3, 2>>, <<2, 1>>, <<5, 2>>}

\* The zoom slider: min 1, max 2, in hundredths.
ZoomMin == 100
ZoomMax == 200

\* useState(0.92), in hundredths.
DefaultQuality == 92

(***************************************************************************)
(* Bounds of the model                                                     *)
(***************************************************************************)
\* The slider range is halved ZoomSplits times: 2^ZoomSplits + 1 slider values.
ZoomSplits == 1
\* Image dimensions 1..MaxDim (both axes) for the target-fitting check.
MaxDim == 12
\* Crop batches started in one run.
MaxBatches == 2
\* Decodes pending at once.
MaxDecodes == 2

(***************************************************************************)
(* Keyed maps: Record<string, T>                                           *)
(***************************************************************************)
EmptyMap == [k \in {} |-> 0]

\* { ...prev, [id]: v }
Put(map, id, v) == [k \in DOMAIN map \cup {id} |-> IF k = id THEN v ELSE map[k]]

\* map[id] || dflt
GetOr(map, id, dflt) == IF id \in DOMAIN map THEN map[id] ELSE dflt

(***************************************************************************)
(* The crop-geometry functions                                             *)
(***************************************************************************)
\* FitTarget without the refit by height.
FitTargetWidthOnly(preset, imgW, imgH) ==
    LET ratio == Rat(preset.baseWidth, preset.baseHeight)
    IN  [id |-> preset.id, suffix |-> preset.suffix,
         width |-> imgW, height |-> Floor(RDiv(RInt(imgW), ratio))]

\* handleImageUpload, newTargets: one preset fitted to an imgW x imgH image.
FitTarget(preset, imgW, imgH) ==
    LET ratio == Rat(preset.baseWidth, preset.baseHeight)
        byWidthH == RDiv(RInt(imgW), ratio)
        refit == RLt(RInt(imgH), byWidthH)
        targetW == IF refit THEN RMul(RInt(imgH), ratio) ELSE RInt(imgW)
        targetH == IF refit THEN RInt(imgH) ELSE byWidthH
    IN  [id |-> preset.id, suffix |-> preset.suffix,
         width |-> Floor(targetW), height |-> Floor(targetH)]

\* calculateLayout that always fits by width.
calculateLayoutFitWidth(target, imgInfo) ==
    LET cw == RInt(PREVIEW_WIDTH)
        ch == IF target.height = 0 THEN Zero
              ELSE RDiv(cw, Rat(target.width, target.height))
        imageRatio == Rat(imgInfo.width, imgInfo.height)
    IN  [container |-> [width |-> cw, height |-> ch],
         image |-> [width |-> cw, height |-> RDiv(cw, imageRatio)],
         scaleFactor |-> RDiv(RInt(imgInfo.width), cw)]

\* calculateLayout.  A target of height 0 (an image narrower than the preset
\* ratio) makes targetRatio = width / 0 = Infinity in IEEE arithmetic, so
\* containerHeight = 450 / Infinity = 0 and imageRatio > Infinity is false.
calculateLayout(target, imgInfo) ==
    LET infinite == target.height = 0
        targetRatio == IF infinite THEN Zero ELSE Rat(target.width, target.height)
        containerWidth == RInt(PREVIEW_WIDTH)
        containerHeight == IF infinite THEN Zero ELSE RDiv(containerWidth, targetRatio)
        imageRatio == Rat(imgInfo.width, imgInfo.height)
        byHeight == ~infinite /\ RLt(targetRatio, imageRatio)
        renderHeight == IF byHeight THEN containerHeight
                        ELSE RDiv(containerWidth, imageRatio)
        renderWidth == IF byHeight THEN RMul(containerHeight, imageRatio)
                       ELSE containerWidth
    IN  [container |-> [width |-> containerWidth, height |-> containerHeight],
         image |-> [width |-> renderWidth, height |-> renderHeight],
         scaleFactor |-> RDiv(RInt(imgInfo.width), renderWidth)]

\* App render: displayLayout, the layout handed to CropPreview at zoom z.
displayLayout(target, imgInfo, z) ==
    LET base == calculateLayout(target, imgInfo)
    IN  [container |-> base.container,
         image |-> [width |-> RMul(base.image.width, z),
                    height |-> RMul(base.image.height, z)]]

\* Math.min(0, Math.max(lo, v))
Clamp(lo, v) == RMin(Zero, RMax(lo, v))

\* clampPosition that clamps nothing.
clampPositionNone(layout, pos) == pos

\* CropPreview.clampPosition against the layout it was rendered with.

clampPosition(layout, pos) ==
    LET minX == RSub(layout.container.width, layout.image.width)
        minY == RSub(layout.container.height, layout.image.height)
    IN  [x |-> Clamp(minX, pos.x), y |-> Clamp(minY, pos.y)]

\* anchoredPosition with scaleChange = newZoom, the old zoom forgotten.
anchoredPositionNewZoom(layout, pos, oldZoom, newZoom) ==
    LET two == RInt(2)
        centerX == RDiv(layout.container.width, two)
        centerY == RDiv(layout.container.height, two)
    IN  [x |-> RSub(centerX, RMul(RSub(centerX, pos.x), newZoom)),
         y |-> RSub(centerY, RMul(RSub(centerY, pos.y), newZoom))]

\* handleZoomChange, lines 244-257: the position that keeps the container's
\* centre over the same image point, before clamping.
anchoredPosition(layout, pos, oldZoom, newZoom) ==
    LET two == RInt(2)
        centerX == RDiv(layout.container.width, two)
        centerY == RDiv(layout.container.height, two)
        scaleChange == RDiv(newZoom, oldZoom)
    IN  [x |-> RSub(centerX, RMul(RSub(centerX, pos.x), scaleChange)),
         y |-> RSub(centerY, RMul(RSub(centerY, pos.y), scaleChange))]

\* handleZoomChange, lines 244-265: clamped against the zoomed render size.
zoomedPosition(layout, pos, oldZoom, newZoom) ==
    LET new == anchoredPosition(layout, pos, oldZoom, newZoom)
        minX == RSub(layout.container.width, RMul(layout.image.width, newZoom))
        minY == RSub(layout.container.height, RMul(layout.image.height, newZoom))
    IN  [x |-> Clamp(minX, new.x), y |-> Clamp(minY, new.y)]

\* handleCrop, lines 285-287, and getOutputFilename, lines 357-358.
outputSize(target, scale) ==
    [width |-> Round(RMul(RInt(target.width), scale)),
     height |-> Round(RMul(RInt(target.height), scale))]

\* getOutputFilename: `${baseName}${suffix}_${w}x${h}.webp`, kept in parts.
getOutputFilename(baseName, target, scale) ==
    LET size == outputSize(target, scale)
    IN  [baseName |-> baseName, suffix |-> target.suffix,
         width |-> size.width, height |-> size.height, ext |-> "webp"]

\* handleCrop, lines 297-315: the source rectangle handed to drawImage.
sourceRect(target, imgInfo, zoom, position) ==
    LET layout == calculateLayout(target, imgInfo)
        renderedWidth == RMul(layout.image.width, zoom)
        finalScaleFactor == RDiv(RInt(imgInfo.width), renderedWidth)
    IN  [x |-> Round(RMul(RAbs(position.x), finalScaleFactor)),
         y |-> Round(RMul(RAbs(position.y), finalScaleFactor)),
         width |-> Round(RMul(layout.container.width, finalScaleFactor)),
         height |-> Round(RMul(layout.container.height, finalScaleFactor))]

(***************************************************************************)
(* State                                                                   *)
(***************************************************************************)
VARIABLES
    imageInfo,       \* App: ImageInfo | null
    dynamicTargets,  \* App: CropTarget[]
    cropPositions,   \* App: Record<id, Vector2D>
    zoomLevels,      \* App: Record<id, number>
    targetScales,    \* App: Record<id, number>
    croppedImages,   \* App: Record<id, CroppedResult>
    isProcessing,    \* App: boolean
    quality,         \* App: number, in hundredths
    drag,            \* CropPreview: the preview that is dragging, and its dragStart
    decodes,         \* uploads whose FileReader / Image load is still pending
    batches,         \* handleCrop calls with a toBlob callback still pending
    started,         \* number of handleCrop calls so far
    created,         \* URLs made by URL.createObjectURL
    revoked,         \* URLs given to URL.revokeObjectURL
    staleBatches,    \* history: the batches started before the latest resetState
    lastFile         \* history: the file last handed to the uploader

appVars == <<imageInfo, dynamicTargets, cropPositions, zoomLevels, targetScales,
             croppedImages, isProcessing, quality>>
vars == <<imageInfo, dynamicTargets, cropPositions, zoomLevels, targetScales,
          croppedImages, isProcessing, quality, drag, decodes, batches, started,
          created, revoked, staleBatches, lastFile>>

NoImage == [width |-> 0, height |-> 0, name |-> ""]
NoDrag == [id |-> "", start |-> [x |-> Zero, y |-> Zero]]
NoFile == [name |-> "", type |-> <<"", "">>, width |-> 0, height |-> 0]

\* The ids of a target list.
Ids(targets) == {targets[i].id : i \in DOMAIN targets}

\* dynamicTargets.find(t => t.id === id); called only when one exists.
Find(targets, id) == targets[CHOOSE i \in DOMAIN targets : targets[i].id = id]

\* Object.values(images).map(img => img.url)
Urls(images) == {images[k].url : k \in DOMAIN images}

\* file.type.startsWith('image/'): a type is <<type, subtype>>.
IsImageType(type) == type[1] = "image"

Init ==
    /\ imageInfo = NoImage
    /\ dynamicTargets = << >>
    /\ cropPositions = EmptyMap
    /\ zoomLevels = EmptyMap
    /\ targetScales = EmptyMap
    /\ croppedImages = EmptyMap
    /\ isProcessing = FALSE
    /\ quality = DefaultQuality
    /\ drag = NoDrag
    /\ decodes = << >>
    /\ batches = EmptyMap
    /\ started = 0
    /\ created = {}
    /\ revoked = {}
    /\ staleBatches = {}
    /\ lastFile = NoFile

(***************************************************************************)
(* Upload, decode and reset                                                *)
(***************************************************************************)
\* resetState as a closure that sees `seen` as croppedImages.  Setting
\* croppedImages re-runs the effect of lines 101-106, whose cleanup revokes
\* the URLs of the croppedImages being replaced.  With imageInfo null the
\* previews unmount, which drops their drag state.
resetState(seen) ==
    /\ imageInfo' = NoImage
    /\ dynamicTargets' = << >>
    /\ cropPositions' = EmptyMap
    /\ zoomLevels' = EmptyMap
    /\ targetScales' = EmptyMap
    /\ croppedImages' = EmptyMap
    /\ revoked' = revoked \cup Urls(seen) \cup Urls(croppedImages)
    /\ isProcessing' = FALSE
    /\ quality' = DefaultQuality
    /\ drag' = NoDrag
    /\ staleBatches' = 1..started

\* The "New Image" button, rendered while an image is loaded.
NewImageClick ==
    /\ imageInfo # NoImage
    /\ resetState(croppedImages)
    /\ UNCHANGED <<decodes, batches, started, created, lastFile>>

\* handleImageUpload is memoised over [calculateLayout], so the resetState it
\* calls is the first render's, which sees the initial croppedImages, {}.
handleImageUpload(file) ==
    /\ Len(decodes) < MaxDecodes
    /\ resetState(EmptyMap)
    /\ decodes' = Append(decodes, file)
    /\ UNCHANGED <<batches, started, created>>

\* handleFileChange without the test of the file's type.
handleFileChangeAnyType(file) ==
    /\ imageInfo = NoImage
    /\ lastFile' = file
    /\ handleImageUpload(file)

\* ImageUploader.handleFileChange and handleDrop; the uploader is rendered
\* while imageInfo is null.
handleFileChange(file) ==
    /\ imageInfo = NoImage
    /\ lastFile' = file
    /\ IF IsImageType(file.type)
       THEN handleImageUpload(file)
       ELSE UNCHANGED <<appVars, drag, decodes, batches, started, created,
                        revoked, staleBatches>>

Remove(seq, i) == [j \in 1..(Len(seq) - 1) |-> IF j < i THEN seq[j] ELSE seq[j + 1]]

\* handleImageUpload, lines 167-187.
newTargets(imgW, imgH) ==
    [i \in DOMAIN CROP_PRESETS |-> FitTarget(CROP_PRESETS[i], imgW, imgH)]

\* handleImageUpload, lines 204-211.
initialPositions(targets, info) ==
    [id \in Ids(targets) |->
        LET layout == calculateLayout(Find(targets, id), info)
        IN  [x |-> RDiv(RSub(layout.container.width, layout.image.width), RInt(2)),
             y |-> RDiv(RSub(layout.container.height, layout.image.height), RInt(2))]]

\* reader.onload and then img.onload of the i-th pending upload.
imgOnload(i) ==
    /\ i \in DOMAIN decodes
    /\ LET file == decodes[i]
           newImageInfo == [width |-> file.width, height |-> file.height,
                            name |-> file.name]
           targets == newTargets(file.width, file.height)
       IN  /\ imageInfo' = newImageInfo
           /\ dynamicTargets' = targets
           /\ zoomLevels' = [id \in Ids(targets) |-> One]
           /\ targetScales' = [id \in Ids(targets) |-> One]
           /\ cropPositions' = initialPositions(targets, newImageInfo)
    /\ decodes' = Remove(decodes, i)
    /\ UNCHANGED <<croppedImages, isProcessing, quality, drag, batches,
                   started, created, revoked, staleBatches, lastFile>>

\* The file cannot be read or decoded: no handler is registered, nothing is set.
decodeError(i) ==
    /\ i \in DOMAIN decodes
    /\ decodes' = Remove(decodes, i)
    /\ UNCHANGED <<appVars, drag, batches, started, created, revoked,
                   staleBatches, lastFile>>

(***************************************************************************)
(* Pan, zoom, scale and quality controls                                   *)
(***************************************************************************)
\* CropPreview.handleMouseDown on the preview of target id.  The pointer is
\* over one preview at a time, and leaving a preview ends its drag
\* (onMouseLeave), so at most one preview is dragging.
handleMouseDown(id, clientX, clientY) ==
    /\ imageInfo # NoImage
    /\ id \in Ids(dynamicTargets)
    /\ drag = NoDrag \/ drag.id = id
    /\ LET position == GetOr(cropPositions, id, [x |-> Zero, y |-> Zero])
       IN  drag' = [id |-> id,
                    start |-> [x |-> RSub(RInt(clientX), position.x),
                               y |-> RSub(RInt(clientY), position.y)]]
    /\ UNCHANGED <<appVars, decodes, batches, started, created, revoked,
                   staleBatches, lastFile>>

\* handlePositionChange that writes the new position under every key.
handlePositionChangeAll(id, newPosition) ==
    [k \in DOMAIN cropPositions \cup {id} |-> newPosition]

\* App.handlePositionChange
handlePositionChange(id, newPosition) == Put(cropPositions, id, newPosition)

\* CropPreview.handleMouseMove, a window listener while isDragging.
handleMouseMove(clientX, clientY) ==
    /\ drag # NoDrag
    /\ LET target == Find(dynamicTargets, drag.id)
           zoom == GetOr(zoomLevels, drag.id, One)
           layout == displayLayout(target, imageInfo, zoom)
           newPos == [x |-> RSub(RInt(clientX), drag.start.x),
                      y |-> RSub(RInt(clientY), drag.start.y)]
       IN  cropPositions' = handlePositionChange(drag.id, clampPosition(layout, newPos))
    /\ UNCHANGED <<imageInfo, dynamicTargets, zoomLevels, targetScales,
                   croppedImages, isProcessing, quality, drag, decodes,
                   batches, started, created, revoked, staleBatches, lastFile>>

\* CropPreview.handleMouseUp: mouseup on the window, or mouseleave.
handleMouseUp ==
    /\ drag # NoDrag
    /\ drag' = NoDrag
    /\ UNCHANGED <<appVars, decodes, batches, started, created, revoked,
                   staleBatches, lastFile>>

\* App.handleZoomChange, from the slider's change event (a new value).
handleZoomChange(id, newZoom) ==
    /\ imageInfo # NoImage
    /\ id \in Ids(dynamicTargets)
    /\ LET target == Find(dynamicTargets, id)
           oldZoom == GetOr(zoomLevels, id, One)
           layout == calculateLayout(target, imageInfo)
           pos == GetOr(cropPositions, id, [x |-> Zero, y |-> Zero])
           new == zoomedPosition(layout, pos, oldZoom, newZoom)
       IN  /\ newZoom # oldZoom
           /\ zoomLevels' = Put(zoomLevels, id, newZoom)
           /\ cropPositions' = Put(cropPositions, id, new)
    /\ UNCHANGED <<imageInfo, dynamicTargets, targetScales, croppedImages,
                   isProcessing, quality, drag, decodes, batches, started,
                   created, revoked, staleBatches, lastFile>>

\* App.handleScaleChange, from a scale button.
handleScaleChange(id, newScale) ==
    /\ imageInfo # NoImage
    /\ id \in Ids(dynamicTargets)
    /\ targetScales' = Put(targetScales, id, newScale)
    /\ UNCHANGED <<imageInfo, dynamicTargets, cropPositions, zoomLevels,
                   croppedImages, isProcessing, quality, drag, decodes,
                   batches, started, created, revoked, staleBatches, lastFile>>

\* The quality slider: setQuality(parseFloat(value)).
setQuality(q) ==
    /\ imageInfo # NoImage
    /\ quality' = q
    /\ UNCHANGED <<imageInfo, dynamicTargets, cropPositions, zoomLevels,
                   targetScales, croppedImages, isProcessing, drag, decodes,
                   batches, started, created, revoked, staleBatches, lastFile>>

(***************************************************************************)
(* Cropping                                                                *)
(***************************************************************************)
\* URL.createObjectURL gives a fresh URL: the one of target id in batch b.
Url(b, id) == <<b, id>>

\* The encodes of a batch that have not called back yet.
Pending(enc) == {id \in DOMAIN enc : enc[id].state = "pending"}

\* A batch is dropped from `batches` once none of its callbacks is pending.
Keep(b, batch) ==
    IF Pending(batch.enc) = {}
    THEN [k \in DOMAIN batches \ {b} |-> batches[k]]
    ELSE Put(batches, b, batch)

\* handleCrop, lines 285-320: the canvas of one target, as drawn.
canvasOf(target, imgInfo, scale, zoom, position) ==
    LET size == outputSize(target, scale)
    IN  [width |-> size.width, height |-> size.height,
         rect |-> sourceRect(target, imgInfo, zoom, position)]

\* handleCrop, from the "Confirm & Generate" button (disabled while
\* isProcessing).  noCtx are the targets whose canvas.getContext('2d') is
\* null: their promise rejects in the executor, so Promise.all rejects and the
\* catch and finally blocks run before any other event.  The other targets
\* are drawn and handed to canvas.toBlob.
handleCrop(noCtx) ==
    /\ imageInfo # NoImage
    /\ ~isProcessing
    /\ started < MaxBatches
    /\ noCtx \subseteq Ids(dynamicTargets)
    /\ LET b == started + 1
           enc == [id \in Ids(dynamicTargets) |->
                     [state |-> IF id \in noCtx THEN "rejected" ELSE "pending",
                      canvas |-> canvasOf(Find(dynamicTargets, id), imageInfo,
                                          GetOr(targetScales, id, One),
                                          GetOr(zoomLevels, id, One),
                                          cropPositions[id])]]
           batch == [enc |-> enc, image |-> imageInfo, settled |-> noCtx # {}]
       IN  /\ started' = b
           /\ batches' = Keep(b, batch)
           /\ isProcessing' = (noCtx = {})
    /\ UNCHANGED <<imageInfo, dynamicTargets, cropPositions, zoomLevels,
                   targetScales, croppedImages, quality, drag, decodes,
                   created, revoked, staleBatches, lastFile>>

\* handleCrop, lines 343-346: the results of a batch, keyed by target.
newCroppedImages(b, enc) ==
    [id \in DOMAIN enc |->
        [url |-> Url(b, id), width |-> enc[id].canvas.width,
         height |-> enc[id].canvas.height]]

\* toBlobDone that shows each result as soon as its blob arrives.
toBlobDoneEager(b, id) ==
    /\ b \in DOMAIN batches
    /\ id \in Pending(batches[b].enc)
    /\ LET batch == batches[b]
           enc == [batch.enc EXCEPT ![id].state = "resolved"]
           last == ~batch.settled /\ \A k \in DOMAIN enc : enc[k].state = "resolved"
       IN  /\ created' = created \cup {Url(b, id)}
           /\ batches' = Keep(b, [batch EXCEPT !.enc = enc,
                                               !.settled = batch.settled \/ last])
           /\ croppedImages' = Put(croppedImages, id, newCroppedImages(b, enc)[id])
           /\ revoked' = revoked \cup
                  (IF id \in DOMAIN croppedImages THEN {croppedImages[id].url} ELSE {})
           /\ isProcessing' = IF last THEN FALSE ELSE isProcessing
    /\ UNCHANGED <<imageInfo, dynamicTargets, cropPositions, zoomLevels,
                   targetScales, quality, drag, decodes, started, staleBatches,
                   lastFile>>

\* toBlobDone without the effect cleanup of lines 101-106.
toBlobDoneNoCleanup(b, id) ==
    /\ b \in DOMAIN batches
    /\ id \in Pending(batches[b].enc)
    /\ LET batch == batches[b]
           enc == [batch.enc EXCEPT ![id].state = "resolved"]
           commit == ~batch.settled /\ \A k \in DOMAIN enc : enc[k].state = "resolved"
       IN  /\ created' = created \cup {Url(b, id)}
           /\ batches' = Keep(b, [batch EXCEPT !.enc = enc,
                                               !.settled = batch.settled \/ commit])
           /\ IF commit
              THEN /\ croppedImages' = newCroppedImages(b, enc)
                   /\ isProcessing' = FALSE
              ELSE UNCHANGED <<croppedImages, isProcessing>>
    /\ UNCHANGED <<imageInfo, dynamicTargets, cropPositions, zoomLevels,
                   targetScales, quality, drag, decodes, started, revoked,
                   staleBatches, lastFile>>

\* The toBlob callback of target id in batch b, with a blob (lines 323-330).
\* When it resolves the last promise of an unsettled batch, the await of
\* line 342 continues: the results are committed, which re-runs the effect
\* of lines 101-106 and so revokes the URLs of the results replaced.
toBlobDone(b, id) ==
    /\ b \in DOMAIN batches
    /\ id \in Pending(batches[b].enc)
    /\ LET batch == batches[b]
           enc == [batch.enc EXCEPT ![id].state = "resolved"]
           commit == ~batch.settled /\ \A k \in DOMAIN enc : enc[k].state = "resolved"
       IN  /\ created' = created \cup {Url(b, id)}
           /\ batches' = Keep(b, [batch EXCEPT !.enc = enc,
                                               !.settled = batch.settled \/ commit])
           /\ IF commit
              THEN /\ croppedImages' = newCroppedImages(b, enc)
                   /\ revoked' = revoked \cup Urls(croppedImages)
                   /\ isProcessing' = FALSE
              ELSE UNCHANGED <<croppedImages, revoked, isProcessing>>
    /\ UNCHANGED <<imageInfo, dynamicTargets, cropPositions, zoomLevels,
                   targetScales, quality, drag, decodes, started, staleBatches,
                   lastFile>>

\* toBlobFailed without the finally block of lines 351-353.
toBlobFailedStuck(b, id) ==
    /\ b \in DOMAIN batches
    /\ id \in Pending(batches[b].enc)
    /\ LET batch == batches[b]
           enc == [batch.enc EXCEPT ![id].state = "rejected"]
       IN  batches' = Keep(b, [batch EXCEPT !.enc = enc, !.settled = TRUE])
    /\ UNCHANGED <<imageInfo, dynamicTargets, cropPositions, zoomLevels,
                   targetScales, croppedImages, isProcessing, quality, drag,
                   decodes, started, created, revoked, staleBatches, lastFile>>

\* The toBlob callback with null (lines 331-333): the promise rejects.  The
\* first rejection of a batch rejects Promise.all: catch, then finally.
toBlobFailed(b, id) ==
    /\ b \in DOMAIN batches
    /\ id \in Pending(batches[b].enc)
    /\ LET batch == batches[b]
           enc == [batch.enc EXCEPT ![id].state = "rejected"]
       IN  /\ batches' = Keep(b, [batch EXCEPT !.enc = enc, !.settled = TRUE])
           /\ isProcessing' = IF batch.settled THEN isProcessing ELSE FALSE
    /\ UNCHANGED <<imageInfo, dynamicTargets, cropPositions, zoomLevels,
                   targetScales, croppedImages, quality, drag, decodes,
                   started, created, revoked, staleBatches, lastFile>>

(***************************************************************************)
(* Inputs                                                                  *)
(***************************************************************************)
\* Extent of the window the pointer moves in, in CSS pixels.
ViewportSize == 900

\* The two ends of the window on an axis: a drag between them crosses every
\* pan range.
PointerCoords == {0, ViewportSize}

RECURSIVE Pow2(_)
Pow2(n) == IF n = 0 THEN 1 ELSE 2 * Pow2(n - 1)

\* Slider values, multiples of 0.01 between the slider's min and max.
ZoomValues ==
    {Rat(ZoomMin + k * ((ZoomMax - ZoomMin) \div Pow2(ZoomSplits)), 100) :
        k \in 0..Pow2(ZoomSplits)}

ImageFile(name, w, h) ==
    [name |-> name, type |-> <<"image", "png">>, width |-> w, height |-> h]

TextFile(name) ==
    [name |-> name, type |-> <<"text", "plain">>, width |-> 0, height |-> 0]

\* The image of the specification's scenarios.
ScenarioFile == ImageFile("photo", 2000, 1000)

(***************************************************************************)
(* Spec: upload, decode, reset, crop and the encode callbacks, with every  *)
(* target left at the position, zoom and scale the upload gave it.         *)
(***************************************************************************)
Next ==
    \/ handleFileChange(ScenarioFile)
    \/ \E i \in DOMAIN decodes : imgOnload(i)
    \/ \E i \in DOMAIN decodes : decodeError(i)
    \/ NewImageClick
    \/ \E noCtx \in SUBSET PresetIds : handleCrop(noCtx)
    \/ \E b \in DOMAIN batches, id \in PresetIds : toBlobDone(b, id)
    \/ \E b \in DOMAIN batches, id \in PresetIds : toBlobFailed(b, id)

Spec == Init /\ [][Next]_vars

(***************************************************************************)
(* SpecScale: one image, the scale buttons and the quality slider, crop    *)
(* and the encode callbacks.                                               *)
(***************************************************************************)
\* Scale buttons and quality slider values explored.
ScaleValues == {<<1, 1>>, <<2, 1>>}
QualityValues == {50}

NextScale ==
    \/ decodes = << >> /\ handleFileChange(ScenarioFile)
    \/ \E i \in DOMAIN decodes : imgOnload(i)
    \/ NewImageClick
    \/ \E id \in PresetIds, sc \in ScaleValues : handleScaleChange(id, sc)
    \/ \E q \in QualityValues : batches = EmptyMap /\ setQuality(q)
    \/ batches = EmptyMap /\ handleCrop({})
    \/ \E b \in DOMAIN batches, id \in PresetIds : toBlobDone(b, id)

SpecScale == Init /\ [][NextScale]_vars

(***************************************************************************)
(* SpecGeom: the pan and zoom controls of one preview at a time, and the   *)
(* drawImage call of a crop.  The slider is moved between drags, not       *)
(* during one; once a crop has drawn, the run goes on with a reset only.   *)
(***************************************************************************)
\* A wide image and a tall one.
GeomFiles == {ImageFile("wide", 30, 12), ImageFile("tall", 12, 16)}

\* Every other target still has the zoom and the position the upload gave it.
OthersUntouched(id) ==
    \A k \in DOMAIN cropPositions \ {id} :
        /\ GetOr(zoomLevels, k, One) = One
        /\ cropPositions[k] = initialPositions(dynamicTargets, imageInfo)[k]

NextGeom ==
    \/ \E f \in GeomFiles : decodes = << >> /\ handleFileChange(f)
    \/ \E i \in DOMAIN decodes : imgOnload(i)
    \/ NewImageClick
    \/ \E id \in PresetIds, c \in PointerCoords :
          batches = EmptyMap /\ OthersUntouched(id) /\ handleMouseDown(id, c, c)
    \/ \E cx, cy \in PointerCoords : batches = EmptyMap /\ handleMouseMove(cx, cy)
    \/ batches = EmptyMap /\ handleMouseUp
    \/ \E id \in PresetIds, z \in ZoomValues :
          batches = EmptyMap /\ drag = NoDrag /\ OthersUntouched(id)
          /\ handleZoomChange(id, z)
    \/ batches = EmptyMap /\ drag = NoDrag /\ handleCrop({})

SpecGeom == Init /\ [][NextGeom]_vars

(***************************************************************************)
(* SpecFit: uploads of every image size up to MaxDim x MaxDim, and of the  *)
(* scenario image.                                                         *)
(***************************************************************************)
FitFiles == {ImageFile("img", w, h) : w, h \in 1..MaxDim} \cup {ScenarioFile}

NextFit ==
    \/ \E f \in FitFiles : decodes = << >> /\ handleFileChange(f)
    \/ \E i \in DOMAIN decodes : imgOnload(i)
    \/ NewImageClick

SpecFit == Init /\ [][NextFit]_vars

(***************************************************************************)
(* SpecFrame: the pan, zoom and scale controls of both previews of one     *)
(* image, used in any order, with the slider at either end of its range.   *)
(***************************************************************************)
FrameFile == ImageFile("wide", 30, 12)
FrameZooms == {Rat(ZoomMin, 100), Rat(ZoomMax, 100)}

NextFrame ==
    \/ decodes = << >> /\ handleFileChange(FrameFile)
    \/ \E i \in DOMAIN decodes : imgOnload(i)
    \/ NewImageClick
    \/ \E id \in PresetIds, c \in PointerCoords : handleMouseDown(id, c, c)
    \/ \E cx, cy \in PointerCoords : handleMouseMove(cx, cy)
    \/ handleMouseUp
    \/ \E id \in PresetIds, z \in FrameZooms : drag = NoDrag /\ handleZoomChange(id, z)
    \/ \E id \in PresetIds, sc \in ScaleValues : handleScaleChange(id, sc)

SpecFrame == Init /\ [][NextFrame]_vars

(***************************************************************************)
(* SpecLive: the scenario image, crop and reset, where every toBlob        *)
(* callback that is pending is eventually called.                          *)
(***************************************************************************)
Settle ==
    \E b \in DOMAIN batches, id \in PresetIds : toBlobDone(b, id) \/ toBlobFailed(b, id)

NextLive ==
    \/ decodes = << >> /\ handleFileChange(ScenarioFile)
    \/ \E i \in DOMAIN decodes : imgOnload(i)
    \/ NewImageClick
    \/ \E noCtx \in SUBSET PresetIds : handleCrop(noCtx)
    \/ \E b \in DOMAIN batches, id \in PresetIds : toBlobDone(b, id)
    \/ \E b \in DOMAIN batches, id \in PresetIds : toBlobFailed(b, id)

SpecLive == Init /\ [][NextLive]_vars /\ WF_vars(Settle)

(***************************************************************************)
(* SpecUpload: files of either kind handed to the uploader while earlier   *)
(* uploads are still decoding, with the scale buttons, crop and reset.     *)
(* Every decode completes.                                                 *)
(***************************************************************************)
\* Two images and a file that is no image.
Files == {ScenarioFile, ImageFile("tall", 600, 800), TextFile("notes")}

NextUpload ==
    \/ \E f \in Files : handleFileChange(f)
    \/ \E i \in DOMAIN decodes : imgOnload(i)
    \/ NewImageClick
    \/ \E id \in PresetIds, sc \in ScaleValues : handleScaleChange(id, sc)
    \/ batches = EmptyMap /\ handleCrop({})
    \/ \E b \in DOMAIN batches, id \in PresetIds : toBlobDone(b, id)

SpecUpload == Init /\ [][NextUpload]_vars

(***************************************************************************)
(* Properties                                                              *)
(***************************************************************************)
Loaded == imageInfo # NoImage

\* The pan range of target t at zoom z: the least x and y.
MinX(t, z) ==
    LET layout == calculateLayout(t, imageInfo)
    IN  RSub(layout.container.width, RMul(layout.image.width, z))

MinY(t, z) ==
    LET layout == calculateLayout(t, imageInfo)
    IN  RSub(layout.container.height, RMul(layout.image.height, z))

Between(lo, v, hi) == RLe(lo, v) /\ RLe(v, hi)

\* C1: with an image loaded, every target's pan position satisfies
\* Cw - Iw*z <= x <= 0 and Ch - Ih*z <= y <= 0, so the rendered image covers
\* the preview container.  (SpecGeom)
C1_PanCoversContainer ==
    Loaded =>
        \A i \in DOMAIN dynamicTargets :
            LET t == dynamicTargets[i]
                z == zoomLevels[t.id]
                p == cropPositions[t.id]
            IN  /\ Between(MinX(t, z), p.x, Zero)
                /\ Between(MinY(t, z), p.y, Zero)

\* C1 witness: a zoomed target has been dragged to the far edge of its range.
C1_Witness ==
    /\ Loaded
    /\ drag # NoDrag
    /\ zoomLevels[drag.id] # One
    /\ cropPositions[drag.id].x = MinX(Find(dynamicTargets, drag.id), zoomLevels[drag.id])
    /\ cropPositions[drag.id].x # Zero

\* C2: the source rectangle every crop hands to drawImage lies inside the
\* original image: x >= 0, y >= 0, x + width <= W, y + height <= H.  (SpecGeom)
C2_SourceRectInsideImage ==
    \A b \in DOMAIN batches :
        \A id \in DOMAIN batches[b].enc :
            LET r == batches[b].enc[id].canvas.rect
            IN  /\ r.x >= 0
                /\ r.y >= 0
                /\ r.x + r.width <= batches[b].image.width
                /\ r.y + r.height <= batches[b].image.height

\* C3: the target fitted to a W x H image for a preset is no larger than the
\* image, one of its sides is the image's, and the other is the floor of the
\* value the preset ratio gives; a 2000 x 1000 image gives the first preset
\* the target 1091 x 1000.  (SpecFit)
C3_FittedTarget ==
    Loaded =>
        /\ \A i \in DOMAIN CROP_PRESETS :
              LET t == dynamicTargets[i]
                  bw == CROP_PRESETS[i].baseWidth
                  bh == CROP_PRESETS[i].baseHeight
                  W == imageInfo.width
                  H == imageInfo.height
              IN  /\ t.width <= W
                  /\ t.height <= H
                  /\ \/ /\ t.width = W
                        /\ t.height * bw <= W * bh
                        /\ W * bh < (t.height + 1) * bw
                     \/ /\ t.height = H
                        /\ t.width * bh <= H * bw
                        /\ H * bw < (t.width + 1) * bh
        /\ (imageInfo.width = 2000 /\ imageInfo.height = 1000) =>
              (dynamicTargets[1].width = 1091 /\ dynamicTargets[1].height = 1000)

\* C3 witness: the scenario image is loaded and its first target was refitted
\* by height.
C3_Witness ==
    /\ imageInfo.width = 2000
    /\ imageInfo.height = 1000
    /\ dynamicTargets[1].height = imageInfo.height
    /\ dynamicTargets[1].width < imageInfo.width

\* C4: for every loaded image and fitted target, the layout's render size is
\* at least the container's in both axes, the container being PREVIEW_WIDTH
\* wide and PREVIEW_WIDTH / (target.width / target.height) high.  (SpecFit)
C4_CoverLayout ==
    Loaded =>
        \A i \in DOMAIN dynamicTargets :
            LET t == dynamicTargets[i]
                layout == calculateLayout(t, imageInfo)
            IN  /\ layout.container.width = RInt(PREVIEW_WIDTH)
                /\ RMul(layout.container.height, RInt(t.width))
                      = RInt(PREVIEW_WIDTH * t.height)
                /\ RLe(layout.container.width, layout.image.width)
                /\ RLe(layout.container.height, layout.image.height)

\* C4 witness: an image wider than its target is loaded, rendered wider than
\* the container and exactly as high.
C4_Witness ==
    /\ Loaded
    /\ \E i \in DOMAIN dynamicTargets :
          LET layout == calculateLayout(dynamicTargets[i], imageInfo)
          IN  /\ RLt(layout.container.width, layout.image.width)
              /\ layout.container.height = layout.image.height
              /\ dynamicTargets[i].height > 1

\* C5: from every reachable position p of a target at zoom z, a zoom change
\* to z2 and back to z restores p, unless the first change was clamped; it
\* never is when z2 >= z.  (SpecGeom)
C5_ZoomRoundTrip ==
    Loaded =>
        \A i \in DOMAIN dynamicTargets : \A z2 \in ZoomValues :
            LET t == dynamicTargets[i]
                layout == calculateLayout(t, imageInfo)
                z == zoomLevels[t.id]
                p == cropPositions[t.id]
                there == zoomedPosition(layout, p, z, z2)
                back == zoomedPosition(layout, there, z2, z)
                free == there = anchoredPosition(layout, p, z, z2)
            IN  /\ free => back = p
                /\ RLe(z, z2) => free

\* C5 witness: a zoomed target whose position moves, unclamped, under a
\* change to another slider value.
C5_Witness ==
    /\ Loaded
    /\ \E i \in DOMAIN dynamicTargets : \E z2 \in ZoomValues :
          LET t == dynamicTargets[i]
              layout == calculateLayout(t, imageInfo)
              z == zoomLevels[t.id]
              p == cropPositions[t.id]
          IN  /\ z # One
              /\ RLt(z2, z)
              /\ zoomedPosition(layout, p, z, z2) = anchoredPosition(layout, p, z, z2)
              /\ zoomedPosition(layout, p, z, z2) # p

\* A step that changes the zoom of target id of the loaded image.
ZoomStep(id) ==
    /\ Loaded
    /\ imageInfo' = imageInfo
    /\ decodes' = decodes
    /\ id \in DOMAIN zoomLevels
    /\ zoomLevels'[id] # zoomLevels[id]

\* The container's centre.
CenterX(t) == RDiv(calculateLayout(t, imageInfo).container.width, RInt(2))
CenterY(t) == RDiv(calculateLayout(t, imageInfo).container.height, RInt(2))

\* C6, as claimed: on every zoom change the image point at the container's
\* centre stays there, (center - new) / zNew = (center - old) / zOld in both
\* axes.  (SpecGeom)
C6_AnchorKept ==
    [][\A id \in PresetIds : ZoomStep(id) =>
          LET t == Find(dynamicTargets, id)
          IN  /\ RDiv(RSub(CenterX(t), cropPositions'[id].x), zoomLevels'[id])
                   = RDiv(RSub(CenterX(t), cropPositions[id].x), zoomLevels[id])
              /\ RDiv(RSub(CenterY(t), cropPositions'[id].y), zoomLevels'[id])
                   = RDiv(RSub(CenterY(t), cropPositions[id].y), zoomLevels[id])]_vars

\* C6, amended: in each axis the centre point stays where it was whenever the
\* coordinate that keeps it there, center - (center - old) * zNew / zOld, lies
\* in the pan range of the new zoom, as it always does when zooming in;
\* otherwise the new coordinate is the end of the range nearest to it.
C6_AnchorKeptUnlessClamped ==
    [][\A id \in PresetIds : ZoomStep(id) =>
          LET t == Find(dynamicTargets, id)
              ratio == RDiv(zoomLevels'[id], zoomLevels[id])
              ax == RSub(CenterX(t), RMul(RSub(CenterX(t), cropPositions[id].x), ratio))
              ay == RSub(CenterY(t), RMul(RSub(CenterY(t), cropPositions[id].y), ratio))
              minX == MinX(t, zoomLevels'[id])
              minY == MinY(t, zoomLevels'[id])
          IN  /\ cropPositions'[id].x =
                   IF Between(minX, ax, Zero) THEN ax
                   ELSE IF RLt(ax, minX) THEN minX ELSE Zero
              /\ cropPositions'[id].y =
                   IF Between(minY, ay, Zero) THEN ay
                   ELSE IF RLt(ay, minY) THEN minY ELSE Zero
              /\ RLt(zoomLevels[id], zoomLevels'[id]) =>
                   Between(minX, ax, Zero) /\ Between(minY, ay, Zero)]_vars

\* C6 witness: a target zoomed in from its initial, centred position, with the
\* image point that was at the centre still there.
C6_Witness ==
    /\ Loaded
    /\ \E i \in DOMAIN dynamicTargets :
          LET t == dynamicTargets[i]
              z == zoomLevels[t.id]
              p == cropPositions[t.id]
              p0 == initialPositions(dynamicTargets, imageInfo)[t.id]
          IN  /\ z # One
              /\ p # p0
              /\ RDiv(RSub(CenterX(t), p.x), z) = RSub(CenterX(t), p0.x)
              /\ RDiv(RSub(CenterY(t), p.y), z) = RSub(CenterY(t), p0.y)

\* A step in which a toBlob callback of batch b runs.
CallbackOf(b) ==
    /\ b \in DOMAIN batches
    /\ b \in DOMAIN batches' => batches'[b] # batches[b]

\* C7: a crop batch commits atomically.  Starting a batch, a failed surface
\* acquisition included, changes no result; a callback of the batch changes
\* the results only when it delivers the last blob of a batch none of whose
\* targets failed, and then replaces them by exactly one result per target of
\* the batch; every other callback leaves the results as they were.  (Spec)
C7_BatchCommitsAtomically ==
    [][/\ started' # started => croppedImages' = croppedImages
       /\ \A b \in DOMAIN batches : CallbackOf(b) =>
             LET enc == batches[b].enc
                 lastBlob == /\ created' # created
                             /\ Cardinality(Pending(enc)) = 1
                             /\ \A id \in DOMAIN enc : enc[id].state # "rejected"
             IN  IF lastBlob
                 THEN /\ DOMAIN croppedImages' = DOMAIN enc
                      /\ \A id \in DOMAIN enc : croppedImages'[id].url = Url(b, id)
                 ELSE croppedImages' = croppedImages]_vars

\* C7 witness: the first batch committed one result per target, and a second
\* batch has failed and ended, leaving those results in place.
C7_Witness ==
    /\ started = 2
    /\ staleBatches = {}
    /\ batches = EmptyMap
    /\ DOMAIN croppedImages = PresetIds
    /\ \A id \in DOMAIN croppedImages : croppedImages[id].url = Url(1, id)

\* C8: once resetState has run, no result of a batch started before it is in
\* the result set, which stays empty until a crop is started after it.  (Spec)
C8_NoResultAcrossReset ==
    /\ started \in staleBatches => croppedImages = EmptyMap
    /\ \A id \in DOMAIN croppedImages : croppedImages[id].url[1] \notin staleBatches

\* C9: every step revokes the URLs of the results it takes out of the result
\* set, by a commit or by a reset, and no URL of the current result set is
\* revoked.  (Spec)
C9_ReplacedResultsRevoked ==
    [][/\ Urls(croppedImages) \ Urls(croppedImages') \subseteq revoked'
       /\ Urls(croppedImages') \cap revoked' = {}]_vars

\* C9 witness: the results of a second batch have replaced those of the first
\* in one session, and the first batch's URLs are revoked.
C9_Witness ==
    /\ staleBatches = {}
    /\ DOMAIN croppedImages = PresetIds
    /\ \A id \in PresetIds :
          /\ croppedImages[id].url = Url(2, id)
          /\ Url(1, id) \in created
          /\ Url(1, id) \in revoked

\* C10: for every target with a committed result, the width and height in the
\* download filename are the pixel dimensions of its encoded result.
\* (SpecScale)
C10_FilenameMatchesResult ==
    Loaded =>
        \A i \in DOMAIN dynamicTargets :
            LET t == dynamicTargets[i]
                name == getOutputFilename(imageInfo.name, t,
                                          GetOr(targetScales, t.id, One))
            IN  t.id \in DOMAIN croppedImages =>
                    /\ name.width = croppedImages[t.id].width
                    /\ name.height = croppedImages[t.id].height

\* Target id's position, zoom or scale differs after the step.
Touched(id) ==
    \/ cropPositions'[id] # cropPositions[id]
    \/ zoomLevels'[id] # zoomLevels[id]
    \/ targetScales'[id] # targetScales[id]

\* C11: while an image stays loaded, a step changes the position, zoom or
\* scale of at most one target; a step that moves a position without a zoom
\* change moves the position of the target being dragged; a step that changes
\* a target's scale leaves that target's position and zoom as they were.
\* (SpecFrame)
C11_OwnControlsOnly ==
    [][(Loaded /\ imageInfo' = imageInfo /\ decodes' = decodes) =>
          \A a \in PresetIds :
              /\ Touched(a) => \A b \in PresetIds \ {a} : ~Touched(b)
              /\ (cropPositions'[a] # cropPositions[a] /\ zoomLevels'[a] = zoomLevels[a])
                    => drag.id = a
              /\ targetScales'[a] # targetScales[a] =>
                    /\ cropPositions'[a] = cropPositions[a]
                    /\ zoomLevels'[a] = zoomLevels[a]]_vars

\* C11 witness: one target is being dragged away from where the upload put
\* it while the other keeps the zoom, position and scale its own controls
\* gave it.
C11_Witness ==
    /\ Loaded
    /\ \E a, b \in PresetIds :
          /\ a # b
          /\ drag.id = a
          /\ cropPositions[a] # initialPositions(dynamicTargets, imageInfo)[a]
          /\ zoomLevels[a] = One
          /\ zoomLevels[b] # One
          /\ targetScales[b] # One
          /\ cropPositions[b] # initialPositions(dynamicTargets, imageInfo)[b]

\* C12: the key sets of cropPositions, zoomLevels and targetScales are the
\* ids of dynamicTargets, one per preset while an image is loaded and none
\* otherwise, and every key of croppedImages is one of them.  (Spec)
C12_MapsInSync ==
    LET ids == Ids(dynamicTargets)
    IN  /\ DOMAIN cropPositions = ids
        /\ DOMAIN zoomLevels = ids
        /\ DOMAIN targetScales = ids
        /\ ids = IF Loaded THEN PresetIds ELSE {}
        /\ DOMAIN croppedImages \subseteq ids

\* C13: a crop that has set isProcessing eventually has it back to false;
\* neither the start of a batch nor any of its callbacks changes the loaded
\* image, the targets, positions, zooms or scales; and no batch starts while
\* isProcessing is true.  (SpecLive)
C13_CropFailureNotFatal ==
    /\ isProcessing ~> ~isProcessing
    /\ [][/\ started' # started => ~isProcessing
          /\ (started' # started \/ \E b \in DOMAIN batches : CallbackOf(b)) =>
                /\ imageInfo' = imageInfo
                /\ dynamicTargets' = dynamicTargets
                /\ cropPositions' = cropPositions
                /\ zoomLevels' = zoomLevels
                /\ targetScales' = targetScales]_vars

\* C13 witness: in one session a batch has ended in failure after one encode
\* succeeded, and a second crop has been started on the same image.
C13_Witness ==
    /\ Loaded
    /\ staleBatches = {}
    /\ started = 2
    /\ isProcessing
    /\ DOMAIN batches = {2}
    /\ croppedImages = EmptyMap
    /\ \E id \in PresetIds : Url(1, id) \in created

\* C14: a step that hands the uploader a file whose type is not an image
\* type changes none of the loaded image, targets, positions, zooms, scales,
\* results, quality and processing flag, and starts no decode.  (SpecUpload)
C14_NonImageFileIgnored ==
    [][(lastFile' # lastFile /\ ~IsImageType(lastFile'.type)) =>
          /\ appVars' = appVars
          /\ decodes' = decodes]_vars

\* C14 witness: a file that is no image has been handed to the uploader while
\* an upload was decoding and results were shown, and both are still there.
C14_Witness ==
    /\ lastFile # NoFile
    /\ ~IsImageType(lastFile.type)
    /\ decodes # << >>
    /\ croppedImages # EmptyMap

\* C15: every URL created by a batch all of whose callbacks have run is in
\* the result set or has been revoked.  (Spec)
C15_NoUrlLeaked ==
    \A u \in created :
        u[1] \notin DOMAIN batches => (u \in Urls(croppedImages) \/ u \in revoked)

\* C16: once no decode is pending, the loaded image and its targets are
\* those of the image file handed to the uploader last.  (SpecUpload)
C16_LastUploadWins ==
    (Loaded /\ decodes = << >> /\ IsImageType(lastFile.type)) =>
        /\ imageInfo = [width |-> lastFile.width, height |-> lastFile.height,
                        name |-> lastFile.name]
        /\ dynamicTargets = newTargets(lastFile.width, lastFile.height)

=============================================================================
